---- MODULE Spec2Model ----
(***************************************************************************)
(* Model of the Router class of src/src/Router.ts.                         *)
(*                                                                         *)
(* Strings are sequences of one-character strings, so that split('/'),     *)
(* startsWith('(') and replace(/[()]/g, '') are computed, not assumed.     *)
(* The two JavaScript values that are not strings are one-element          *)
(* sequences whose element is not a character: Undefined and Null.         *)
(***************************************************************************)
EXTENDS Integers, Sequences, FiniteSets, TLC

\* ------------------------------------------------------------------------
\* Bounds and input sets
\* ------------------------------------------------------------------------

\* Largest number of distinct keys the route collection holds under Spec.
MaxRoutes == 2

\* Largest number of addRoute calls under SpecLog.
MaxAdds == 3

NOT_FOUND == 404

Undefined == <<"undefined">>
Null == <<"null">>

GET == <<"G", "E", "T">>
PUT == <<"P", "U", "T">>

Handlers == {"h1", "h2"}

PatEmpty == <<>>
PatRoot == <<"/">>
PatParam == <<"/", "(", "p", ")">>
PatAParam == <<"/", "a", "/", "(", "p", ")">>
PatAB == <<"/", "a", "/", "b">>
PatAParamB == <<"/", "a", "/", "(", "p", ")", "/", "b">>
PatParamParam == <<"/", "(", "p", ")", "/", "(", "q", ")">>

\* The path patterns handed to addRoute.
Patterns ==
  {PatEmpty, PatRoot, PatParam, PatAParam, PatAB, PatAParamB, PatParamParam}

\* The (method, pattern) pairs handed to addRoute.
Registrations == ({GET} \X Patterns) \cup ({PUT} \X {PatAB, PatParam})

UrlEmpty == <<>>
UrlA == <<"a">>
UrlAB == <<"a", "/", "b">>
UrlAA == <<"a", "/", "a">>
UrlATrail == <<"a", "/">>
UrlAAB == <<"a", "/", "a", "/", "b">>

\* The values of context.bindingData.path: absent, or a string.
Urls == {Undefined, UrlEmpty, UrlA, UrlAB, UrlAA, UrlATrail, UrlAAB}

\* The (method, path) pairs of the requests handed to route.
Requests == ({GET} \X Urls) \cup ({PUT} \X {Undefined, UrlA, UrlAB})

\* ------------------------------------------------------------------------
\* JavaScript string and array primitives used by the router
\* ------------------------------------------------------------------------

RECURSIVE Split(_)
\* String.prototype.split('/'): always at least one element.
Split(s) ==
  IF \A i \in 1..Len(s) : s[i] # "/"
  THEN <<s>>
  ELSE LET i == CHOOSE k \in 1..Len(s) :
                  s[k] = "/" /\ \A j \in 1..(k - 1) : s[j] # "/"
       IN <<SubSeq(s, 1, i - 1)>> \o Split(SubSeq(s, i + 1, Len(s)))

ShiftKeepsFirst(arr) == arr

\* Array.prototype.shift(): the array without its first element.
Shift(arr) == IF Len(arr) = 0 THEN arr ELSE Tail(arr)

\* part.startsWith('(')
StartsWithParen(part) == Len(part) > 0 /\ part[1] = "("

\* part.replace(/[()]/g, '')
StripParens(part) == SelectSeq(part, LAMBDA c : c \notin {"(", ")"})

\* arr[index] with a zero-based index: undefined past the end.
ArrayGet(arr, index) ==
  IF index >= 0 /\ index < Len(arr) THEN arr[index + 1] ELSE Undefined

\* ------------------------------------------------------------------------
\* addRoute: the test closure and the Map
\* ------------------------------------------------------------------------

RECURSIVE TestLoop(_, _, _)
\* The for loop of test(): TRUE when it runs to the end without returning false.
TestLoop(pathParts, urlParts, index) ==
  IF index >= Len(pathParts)
  THEN TRUE
  ELSE LET part == pathParts[index + 1]
       IN IF ~StartsWithParen(part) /\ ArrayGet(urlParts, index) # part
          THEN FALSE
          ELSE TestLoop(pathParts, urlParts, index + 1)

TestAnyMethod(method, pathParts, requestMethod, url) ==
  LET urlParts == Split(IF url = Undefined THEN <<>> ELSE url)
  IN /\ TestLoop(pathParts, urlParts, 0)
     /\ Len(pathParts) = Len(urlParts)

TestPrefix(method, pathParts, requestMethod, url) ==
  LET urlParts == Split(IF url = Undefined THEN <<>> ELSE url)
  IN /\ requestMethod = method
     /\ TestLoop(pathParts, urlParts, 0)

\* test(requestMethod, url = '') of the route registered with method and
\* the pattern whose parts are pathParts.
Test(method, pathParts, requestMethod, url) ==
  LET urlParts == Split(IF url = Undefined THEN <<>> ELSE url)
  IN /\ requestMethod = method
     /\ TestLoop(pathParts, urlParts, 0)
     /\ Len(pathParts) = Len(urlParts)

\* Map.prototype.set: a new key goes last, an existing key keeps its place.
MapSet(map, key, value) ==
  IF \E i \in 1..Len(map) : map[i].key = key
  THEN [i \in 1..Len(map) |-> IF map[i].key = key THEN value ELSE map[i]]
  ELSE Append(map, value)

\* ------------------------------------------------------------------------
\* route: parameter extraction and dispatch
\* ------------------------------------------------------------------------

\* context.bindingData.path && context.bindingData.path.split('/'):
\* undefined and '' are falsy and are kept as they are.
UrlPartsOf(path) ==
  IF path = Undefined THEN [type |-> "undefined", val |-> <<>>]
  ELSE IF path = <<>> THEN [type |-> "string", val |-> path]
  ELSE [type |-> "array", val |-> Split(path)]

\* urlParts[index]: a property read of undefined throws a TypeError; an
\* index into a string yields its character or undefined.
IndexThrows(urlParts) == urlParts.type = "undefined"

UrlPartAt(urlParts, index) ==
  IF urlParts.type = "array" THEN ArrayGet(urlParts.val, index)
  ELSE IF index < Len(urlParts.val) THEN <<urlParts.val[index + 1]>>
  ELSE Undefined

RECURSIVE ParamsLoop(_, _, _, _)
\* The inner for loop of route(): [threw, params].
ParamsLoop(pathParts, urlParts, index, params) ==
  IF index >= Len(pathParts)
  THEN [threw |-> FALSE, params |-> params]
  ELSE LET part == pathParts[index + 1]
       IN IF StartsWithParen(part)
          THEN IF IndexThrows(urlParts)
               THEN [threw |-> TRUE, params |-> params]
               ELSE ParamsLoop(pathParts, urlParts, index + 1,
                      (StripParens(part) :> UrlPartAt(urlParts, index)) @@ params)
          ELSE ParamsLoop(pathParts, urlParts, index + 1, params)

\* What a registered handler resolves to.
HandlerResult(h) == [status |-> 200, body |-> <<h>>]

NotFoundUndefinedBody == [status |-> NOT_FOUND, body |-> Undefined]

\* The fallback of route().
NotFoundResponse == [status |-> NOT_FOUND, body |-> Null]

\* The body of the if in route(): the outcome of dispatching to entry.
Dispatch(entry, path) ==
  LET pathParts == Shift(Split(entry.key))
      extracted == ParamsLoop(pathParts, UrlPartsOf(path), 0, <<>>)
  IN IF extracted.threw
     THEN [invoked |-> <<>>,
           response |-> [kind |-> "rejected", value |-> "TypeError"]]
     ELSE [invoked |-> <<[key |-> entry.key, handler |-> entry.handler,
                          params |-> extracted.params]>>,
           response |-> [kind |-> "resolved",
                         value |-> HandlerResult(entry.handler)]]

RECURSIVE RouteScanLast(_, _, _, _)
RouteScanLast(map, method, path, i) ==
  IF i < 1
  THEN [invoked |-> <<>>,
        response |-> [kind |-> "resolved", value |-> NotFoundResponse]]
  ELSE IF Test(map[i].method, map[i].pathParts, method, path)
       THEN Dispatch(map[i], path)
       ELSE RouteScanLast(map, method, path, i - 1)

RouteScanFromLast(map, method, path, i) ==
  RouteScanLast(map, method, path, Len(map))

RECURSIVE RouteScan(_, _, _, _)
\* The for..of loop of route() from the i-th entry on, and its fallback.
RouteScan(map, method, path, i) ==
  IF i > Len(map)
  THEN [invoked |-> <<>>,
        response |-> [kind |-> "resolved", value |-> NotFoundResponse]]
  ELSE IF Test(map[i].method, map[i].pathParts, method, path)
       THEN Dispatch(map[i], path)
       ELSE RouteScan(map, method, path, i + 1)

\* ------------------------------------------------------------------------
\* State
\* ------------------------------------------------------------------------

VARIABLES
  routeHandlers,  \* the Map, as the sequence of its entries in iteration order
  request,        \* method and path of the route() call just made
  invoked,        \* the handler calls that route() call made
  response,       \* what that route() call settled to
  latest,         \* history: key -> arguments of the latest addRoute call for it
  regOrder,       \* history: keys in the order of their first registration
  calls           \* history: the addRoute calls in order (SpecLog only)

vars == <<routeHandlers, request, invoked, response, latest, regOrder, calls>>

NoRequest == [method |-> <<>>, path |-> Undefined]

NoResponse == [kind |-> "none", value |-> "none"]

Init ==
  /\ routeHandlers = <<>>
  /\ request = NoRequest
  /\ invoked = <<>>
  /\ response = NoResponse
  /\ latest = <<>>
  /\ regOrder = <<>>
  /\ calls = <<>>

HasKey(map, key) == \E i \in 1..Len(map) : map[i].key = key

\* The body of addRoute(method, path, handler). The record of the route()
\* call made before it is dropped: it says nothing about the new collection.
Register(method, path, handler) ==
  LET pathParts == Shift(Split(path))
      key == method \o path
      entry == [key |-> key, method |-> method, pathParts |-> pathParts,
                handler |-> handler]
  IN /\ routeHandlers' = MapSet(routeHandlers, key, entry)
     /\ latest' = (key :> [method |-> method, path |-> path,
                            handler |-> handler]) @@ latest
     /\ regOrder' = IF \E i \in 1..Len(regOrder) : regOrder[i] = key
                    THEN regOrder
                    ELSE Append(regOrder, key)
     /\ request' = NoRequest
     /\ invoked' = <<>>
     /\ response' = NoResponse

\* addRoute(method, path, handler), the collection capped at MaxRoutes keys
AddRoute(method, path, handler) ==
  /\ HasKey(routeHandlers, method \o path) \/ Len(routeHandlers) < MaxRoutes
  /\ Register(method, path, handler)
  /\ UNCHANGED calls

\* addRoute(method, path, handler), recorded, at most MaxAdds times
AddRouteLogged(method, path, handler) ==
  /\ Len(calls) < MaxAdds
  /\ Register(method, path, handler)
  /\ calls' = Append(calls, [method |-> method, path |-> path,
                             handler |-> handler])

\* route(context) with context.req.method and context.bindingData.path
Route(method, path) ==
  LET outcome == RouteScan(routeHandlers, method, path, 1)
  IN /\ request' = [method |-> method, path |-> path]
     /\ invoked' = outcome.invoked
     /\ response' = outcome.response
     /\ UNCHANGED <<routeHandlers, latest, regOrder, calls>>

Next ==
  \/ \E reg \in Registrations, handler \in Handlers :
       AddRoute(reg[1], reg[2], handler)
  \/ \E req \in Requests : Route(req[1], req[2])

Spec == Init /\ [][Next]_vars

NextLog ==
  \/ \E reg \in Registrations, handler \in Handlers :
       AddRouteLogged(reg[1], reg[2], handler)
  \/ \E req \in Requests : Route(req[1], req[2])

SpecLog == Init /\ [][NextLog]_vars

\* ------------------------------------------------------------------------
\* Vocabulary of the properties: what the specification calls a match
\* ------------------------------------------------------------------------

\* route() has just been called on the present collection.
Called == response.kind # "none"

\* The i-th registered route, in order of first registration, with the
\* arguments of its latest addRoute call.
Reg(i) == latest[regOrder[i]]

\* A pattern's segments, the leading empty one discarded.
PatternSegments(path) == Tail(Split(path))

\* A segment wrapped in parentheses.
IsParamSegment(seg) ==
  Len(seg) >= 2 /\ seg[1] = "(" /\ seg[Len(seg)] = ")"

ParamName(seg) == SubSeq(seg, 2, Len(seg) - 1)

\* The request path's segments, an absent path read as the empty string.
RequestSegments ==
  Split(IF request.path = Undefined THEN <<>> ELSE request.path)

SegmentsMatch(ps, us) ==
  /\ Len(ps) = Len(us)
  /\ \A i \in 1..Len(ps) : IsParamSegment(ps[i]) \/ ps[i] = us[i]

\* The route r = [method, path, handler] matches the latest request.
Matches(r) ==
  /\ r.method = request.method
  /\ SegmentsMatch(PatternSegments(r.path), RequestSegments)

\* The i-th registered route matches and no earlier-registered one does.
FirstMatch(i) ==
  /\ Matches(Reg(i))
  /\ \A j \in 1..(i - 1) : ~Matches(Reg(j))

\* route() called exactly the handler of the i-th registered route, once.
InvokedOnce(i) ==
  /\ Len(invoked) = 1
  /\ invoked[1].key = regOrder[i]
  /\ invoked[1].handler = Reg(i).handler

\* ------------------------------------------------------------------------
\* Properties
\* ------------------------------------------------------------------------

\* C1: a request with a present path whose first matching registered route
\* is r invokes r's handler exactly once, with every parameter name of r's
\* pattern bound to the request segment at the same index.
C1_ParamsBound ==
  (Called /\ request.path # Undefined) =>
    \A i \in 1..Len(regOrder) :
      FirstMatch(i) =>
        /\ InvokedOnce(i)
        /\ LET ps == PatternSegments(Reg(i).path)
               us == RequestSegments
           IN \A j \in 1..Len(ps) :
                IsParamSegment(ps[j]) =>
                  /\ ParamName(ps[j]) \in DOMAIN invoked[1].params
                  /\ invoked[1].params[ParamName(ps[j])] = us[j]

RootKey == GET \o PatRoot

EmptyRemainder == request.path \in {Undefined, <<>>}

RootInvokedAlone ==
  /\ Len(invoked) = 1
  /\ invoked[1].key = RootKey
  /\ invoked[1].handler = latest[RootKey].handler
  /\ invoked[1].params = <<>>

RootNeverOnNonEmpty ==
  ~EmptyRemainder => \A n \in 1..Len(invoked) : invoked[n].key # RootKey

\* C3 (as stated): with '/' registered for GET, a GET request with an absent
\* or empty path invokes the root handler exactly once with no parameters
\* and no other handler; a GET request with a non-empty path never invokes it.
C3_RootAlways ==
  (Called /\ request.method = GET /\ RootKey \in DOMAIN latest) =>
    /\ EmptyRemainder => RootInvokedAlone
    /\ RootNeverOnNonEmpty

\* C3 (amended): the same, provided no route registered before '/' also
\* matches the request.
C3_RootUnlessShadowed ==
  (Called /\ request.method = GET /\ RootKey \in DOMAIN latest) =>
    /\ (/\ EmptyRemainder
        /\ \A i \in 1..Len(regOrder) :
             regOrder[i] = RootKey => FirstMatch(i))
         => RootInvokedAlone
    /\ RootNeverOnNonEmpty

\* A GET request with an absent path dispatched to '/', registered second.
C3_Witness ==
  /\ Called
  /\ request = [method |-> GET, path |-> Undefined]
  /\ Len(regOrder) = 2
  /\ regOrder[2] = RootKey
  /\ RootInvokedAlone
  /\ response.kind = "resolved"

\* C4: route() never invokes a route whose pattern has another number of
\* segments than the request path; and for a request path of two or more
\* segments, a matching route that only routes of another segment count
\* were registered before (a strict prefix among them) is dispatched
\* exactly once.
C4_SegmentCount ==
  Called =>
    /\ \A n \in 1..Len(invoked) :
         Len(PatternSegments(latest[invoked[n].key].path)) = Len(RequestSegments)
    /\ Len(RequestSegments) >= 2 =>
         \A i \in 1..Len(regOrder) :
           (/\ Matches(Reg(i))
            /\ \A j \in 1..(i - 1) :
                 Len(PatternSegments(Reg(j).path)) # Len(RequestSegments))
             => InvokedOnce(i)

\* '/a/(p)' registered before '/a/(p)/b', request 'a/a/b': the longer one runs.
C4_Witness ==
  /\ Called
  /\ request = [method |-> GET, path |-> UrlAAB]
  /\ regOrder = <<GET \o PatAParam, GET \o PatAParamB>>
  /\ InvokedOnce(2)

\* C5: two routes on one path under different methods are both kept, and a
\* request whose first match is either of them invokes exactly that route's
\* handler, once.
C5_MethodsCoexist ==
  /\ \A k \in DOMAIN latest :
       /\ Cardinality({n \in 1..Len(routeHandlers) : routeHandlers[n].key = k}) = 1
       /\ \A n \in 1..Len(routeHandlers) :
            routeHandlers[n].key = k => routeHandlers[n].handler = latest[k].handler
  /\ \A n \in 1..Len(invoked) : latest[invoked[n].key].method = request.method
  /\ Called =>
       \A i \in 1..Len(regOrder), j \in 1..Len(regOrder) :
         (/\ Reg(i).path = Reg(j).path
          /\ Reg(i).method # Reg(j).method
          /\ FirstMatch(i))
           => InvokedOnce(i)

\* C6: route() invokes at most one handler, and only that of the first
\* matching route in registration order.
C6_FirstMatchOnly ==
  Called =>
    /\ Len(invoked) <= 1
    /\ \A n \in 1..Len(invoked) :
         \E i \in 1..Len(regOrder) : FirstMatch(i) /\ InvokedOnce(i)

\* Two registered routes with different handlers match; the first one runs.
C6_Witness ==
  /\ Called
  /\ Len(regOrder) = 2
  /\ Matches(Reg(1))
  /\ Matches(Reg(2))
  /\ Reg(1).handler # Reg(2).handler
  /\ InvokedOnce(1)

SameKey(c, d) == c.method = d.method /\ c.path = d.path

\* C7: once a key was registered twice, a request whose first match is that
\* key invokes the handler of its latest registration, and the collection
\* holds one entry for the key.
C7_LastRegistrationWins ==
  \A a \in 1..Len(calls), b \in 1..Len(calls) :
    (/\ a < b
     /\ SameKey(calls[a], calls[b])
     /\ \A c \in (b + 1)..Len(calls) : ~SameKey(calls[b], calls[c]))
      => LET key == calls[b].method \o calls[b].path
         IN /\ Cardinality({n \in 1..Len(routeHandlers) :
                              routeHandlers[n].key = key}) = 1
            /\ Called =>
                 \A i \in 1..Len(regOrder) :
                   (regOrder[i] = key /\ FirstMatch(i)) =>
                     /\ Len(invoked) = 1
                     /\ invoked[1].handler = calls[b].handler

\* C8: every route() call either invokes exactly one handler and resolves to
\* its result, or invokes none and resolves to the 404 response; it never
\* rejects.
C8_NeverRaises ==
  Called =>
    /\ response.kind = "resolved"
    /\ \/ /\ Len(invoked) = 1
          /\ response.value = HandlerResult(invoked[1].handler)
       \/ /\ invoked = <<>>
          /\ response.value.status = NOT_FOUND

\* C9: a request with an empty or absent path invokes the handler of a
\* route registered for its method with the pattern "" or "/", when no
\* earlier-registered route matches the request.
C9_EmptyPatternIsRoot ==
  (Called /\ EmptyRemainder) =>
    \A i \in 1..Len(regOrder) :
      (/\ Reg(i).path \in {PatEmpty, PatRoot}
       /\ Reg(i).method = request.method
       /\ \A j \in 1..(i - 1) : ~Matches(Reg(j)))
        => InvokedOnce(i)

\* C10: after addRoute(A, h1), addRoute(B, hB), addRoute(A, h2) with A and B
\* both matching the request and no other matching route, route() invokes h2
\* through A.
C10_PositionKept ==
  Called =>
    \A a \in 1..Len(calls), b \in 1..Len(calls), c \in 1..Len(calls) :
      (/\ a < b /\ b < c
       /\ SameKey(calls[a], calls[c])
       /\ ~SameKey(calls[a], calls[b])
       /\ \A d \in 1..Len(calls) :
            \/ SameKey(calls[d], calls[a]) /\ a <= d /\ d <= c
            \/ SameKey(calls[d], calls[b]) /\ a < d
            \/ ~Matches(calls[d])
       /\ Matches(calls[c])
       /\ Matches(latest[calls[b].method \o calls[b].path]))
        => /\ Len(invoked) = 1
           /\ invoked[1].key = calls[a].method \o calls[a].path
           /\ invoked[1].handler = calls[c].handler

====
